---- MODULE Spec2Model ----
(***************************************************************************)
(* State-machine model of custom_components/volvo_cars/__init__.py: the    *)
(* config-entry lifecycle handlers of the Volvo Cars integration           *)
(* (async_setup_entry, async_migrate_entry, async_unload_entry,            *)
(* async_remove_entry) together with the persisted store, the token        *)
(* refresh schedule and the UTC-midnight request-count reset they drive.   *)
(*                                                                         *)
(* One config entry is modelled.  Optional values are sequences of length  *)
(* 0 or 1 (<<>> is Python's None / "attribute not set").                   *)
(***************************************************************************)
EXTENDS Integers, Sequences, FiniteSets, TLC

\* ---------------------------------------------------------------- bounds
MaxTime == 3
DayLen == 2
MaxSetups == 2

\* ------------------------------------------------------------- constants
\* VolvoCarsFlowHandler.VERSION / MINOR_VERSION (config_flow.py)
VERSION == 1
MINOR_VERSION == 3

CONF_ACCESS_TOKEN == "access_token"
CONF_REFRESH_TOKEN == "refresh_token"
CONF_PASSWORD == "password"
CONF_VIN == "vin"
OPT_FUEL_CONSUMPTION_UNIT == "fuel_consumption_unit"
OPT_UNIT_LITER_PER_100KM == "l_100km"

NoneId == "None"
ENTRY_ID == "entry1"
UniqueIds == {"vinA", "vinB"}
StoreKeys == UniqueIds \cup {ENTRY_ID}

Versions == 1..(VERSION + 1)
MinorVersions == 1..(MINOR_VERSION + 1)

\* the entities _remove_old_entities looks up, as (platform, key) pairs
OldEntities ==
    { <<"binary_sensor", "availability">>,
      <<"binary_sensor", "front_left_door">>,
      <<"binary_sensor", "front_right_door">>,
      <<"binary_sensor", "rear_left_door">>,
      <<"binary_sensor", "rear_right_door">>,
      <<"binary_sensor", "front_left_tyre">>,
      <<"binary_sensor", "front_right_tyre">>,
      <<"binary_sensor", "rear_left_tyre">>,
      <<"binary_sensor", "rear_right_tyre">>,
      <<"binary_sensor", "front_left_window">>,
      <<"binary_sensor", "front_right_window">>,
      <<"binary_sensor", "rear_left_window">>,
      <<"binary_sensor", "rear_right_window">>,
      <<"sensor", "engine_hours_to_service">> }

\* ------------------------------------------------------------ time / ISO
\* datetime.isoformat(): an instant written as <<day, time-of-day>>
IsoFormat(t) == <<t \div DayLen, t % DayLen>>

\* datetime.fromisoformat(): the instant a written timestamp denotes
FromIsoFormat(ts) == ts[1] * DayLen + ts[2]

\* datetime.combine(date(now.year, now.month, now.day), time(0, 0, 0, UTC))
MostRecentMidnight(t) == FromIsoFormat(<<IsoFormat(t)[1], 0>>)

\* ----------------------------------------------------------------- store
\* StoreData as the store manager keeps it; the default of a store that
\* has no file yet
DefaultStoreData ==
    [access_token |-> "", refresh_token |-> "", api_requests_reset_time |-> <<>>]

\* VolvoCarsStoreManager.async_load on the persisted stores
StoreLoad(st, key) == IF st[key] = <<>> THEN DefaultStoreData ELSE st[key][1]

\* Store.async_save
StoreSave(st, key, d) == [st EXCEPT ![key] = <<d>>]

\* Store.async_remove
StoreRemove(st, key) == [st EXCEPT ![key] = <<>>]

\* ------------------------------------------------------------- variables
VARIABLES
    entry,        \* the config entry: version, minor_version, data, options,
                  \*   unique_id, runtime_data
    registry,     \* entity registry: the old entities still registered
    stores,       \* persisted stores by storage key: <<>> or <<StoreData>>
    sess,         \* one record per async_setup_entry run: its store manager,
                  \*   token refresh schedule and listeners
    state,        \* the host's state of the entry
    pc,           \* position inside the running async_setup_entry
    now,          \* current UTC instant
    lastOp,       \* handler that ran last
    result,       \* what it returned: "True", "False", "None" or "raised"
    pre,          \* entry, stores and registry as the last migrate call found them
    managers,     \* every VolvoCarsStoreManager constructed: [op, key]
    check,        \* the missed-reset check of the latest setup: <<>> until it ran
    resetCalls,   \* coordinator.async_reset_request_count calls since that setup began
    midnights,    \* UTC midnights passed since then, with the entry's position
    unsetReads    \* handlers that read entry.runtime_data while it was not set

vars == <<entry, registry, stores, sess, state, pc, now, lastOp, result, pre,
          managers, check, resetCalls, midnights, unsetReads>>

\* ------------------------------------------------------------------ Init
DataValues(k) ==
    CASE k = CONF_VIN -> {"VIN1"}
      [] k = CONF_PASSWORD -> {"pw"}
      [] k = CONF_ACCESS_TOKEN -> {"a1"}
      [] k = CONF_REFRESH_TOKEN -> {"r1"}

AllDataValues == {"VIN1", "pw", "a1", "r1"}

\* entry.data as older versions of the integration may have written it:
\* the VIN always, the password and either token optionally
InitData ==
    UNION { { d \in [K \cup {CONF_VIN} -> AllDataValues] :
                \A k \in DOMAIN d : d[k] \in DataValues(k) } :
            K \in SUBSET {CONF_PASSWORD, CONF_ACCESS_TOKEN, CONF_REFRESH_TOKEN} }

\* entry.options: the fuel consumption unit not set yet
InitOptions == { [k \in {} |-> ""] }

InitStoreData ==
    { [access_token |-> "s1", refresh_token |-> "s2", api_requests_reset_time |-> ts] :
        ts \in {<<>>} \cup {IsoFormat(t) : t \in 0..1} }

Init ==
    /\ entry \in [version : Versions, minor_version : MinorVersions,
                  data : InitData, options : InitOptions,
                  unique_id : UniqueIds, runtime_data : {<<>>}]
    /\ registry = OldEntities
    /\ stores \in { st \in [StoreKeys -> {<<>>} \cup { <<d>> : d \in InitStoreData }] :
                      \A k \in StoreKeys : k # entry.unique_id => st[k] = <<>> }
    /\ sess = <<>>
    /\ state = "not_loaded"
    /\ pc = "idle"
    /\ now = 1
    /\ lastOp = "none"
    /\ result = "None"
    /\ pre = <<>>
    /\ managers = {}
    /\ check = <<>>
    /\ resetCalls = {}
    /\ midnights = {}
    /\ unsetReads = {}

\* ------------------------------------------------- async_migrate_entry
\* a downgrade guard that lets the next version through
DowngradedOffByOne(e) == e.version > VERSION + 1

\* "if entry.version > VolvoCarsFlowHandler.VERSION": a downgrade
Downgraded(e) == e.version > VERSION

\* new_options after the minor_version < 2 step
MigratedOptions(e) ==
    IF e.minor_version < 2
    THEN [k \in DOMAIN e.options \cup {OPT_FUEL_CONSUMPTION_UNIT} |->
            IF k = OPT_FUEL_CONSUMPTION_UNIT THEN OPT_UNIT_LITER_PER_100KM
            ELSE e.options[k]]
    ELSE e.options

\* "CONF_ACCESS_TOKEN in new_data and 'refresh_token' in new_data"
HasBothTokens(d) == CONF_ACCESS_TOKEN \in DOMAIN d /\ CONF_REFRESH_TOKEN \in DOMAIN d

\* dict.pop of a set of keys
Pop(d, keys) == [k \in DOMAIN d \ keys |-> d[k]]

\* the minor_version < 3 step without "new_data.pop(CONF_PASSWORD)"
MigratedDataKeepsPassword(e) ==
    IF e.minor_version < 3 /\ HasBothTokens(e.data)
    THEN Pop(e.data, {CONF_ACCESS_TOKEN, CONF_REFRESH_TOKEN})
    ELSE e.data

\* new_data after the minor_version < 3 step
MigratedData(e) ==
    IF e.minor_version < 3
    THEN LET d1 == IF HasBothTokens(e.data)
                   THEN Pop(e.data, {CONF_ACCESS_TOKEN, CONF_REFRESH_TOKEN})
                   ELSE e.data
         IN  IF CONF_PASSWORD \in DOMAIN d1 THEN Pop(d1, {CONF_PASSWORD}) ELSE d1
    ELSE e.data

\* the storage key of the store manager async_migrate_entry creates
MigrateStoreKey(e) == e.unique_id

\* VolvoCarsStoreManager.async_update(access_token=..., refresh_token=...) on
\* a manager that has not loaded: load, set the two tokens, save
StoreUpdateTokens(st, key, access, refresh) ==
    StoreSave(st, key, [StoreLoad(st, key) EXCEPT !.access_token = access,
                                                  !.refresh_token = refresh])

\* does the minor_version < 3 step move the tokens into the store
MovesTokens(e) == e.minor_version < 3 /\ HasBothTokens(e.data)

\* the persisted stores after the minor_version < 3 step
MigratedStores(e, st) ==
    IF MovesTokens(e)
    THEN StoreUpdateTokens(st, MigrateStoreKey(e),
                           e.data[CONF_ACCESS_TOKEN], e.data[CONF_REFRESH_TOKEN])
    ELSE st

\* hass.config_entries.async_update_entry(entry, data=, options=, version=,
\* minor_version=)
UpdatedEntry(e, d, o) ==
    [e EXCEPT !.data = d, !.options = o,
              !.version = VERSION, !.minor_version = MINOR_VERSION]

\* _remove_old_entities: every old entity found in the registry is removed
RemoveOldEntities(reg) == reg \ OldEntities

\* the minor_version < 2 step reads entry.runtime_data, which only
\* async_setup_entry assigns: AttributeError when it is not set
MigrateReadsUnsetRuntimeData(e) == e.minor_version < 2 /\ e.runtime_data = <<>>

\* "assert entry.unique_id is not None" of the token step
MigrateAssertFails(e) == MovesTokens(e) /\ e.unique_id = NoneId

Snapshot ==
    <<[entry |-> entry, stores |-> stores, registry |-> registry,
       lastOp |-> lastOp, result |-> result]>>

\* the host's state after a handler that returned True
AfterMigrated(s) == IF s = "migration_error" THEN "not_loaded" ELSE s

MigrateEntry ==
    /\ state \in {"not_loaded", "setup_retry", "setup_error", "migration_error"}
    /\ pc = "idle"
    /\ lastOp' = "migrate"
    /\ pre' = Snapshot
    /\ IF Downgraded(entry)
       THEN /\ result' = "False"
            /\ state' = "migration_error"
            /\ UNCHANGED <<entry, registry, stores, managers>>
       ELSE IF entry.version = 1
       THEN IF MigrateReadsUnsetRuntimeData(entry)
            THEN /\ result' = "raised"
                 /\ state' = "migration_error"
                 /\ UNCHANGED <<entry, registry, stores, managers>>
            ELSE /\ registry' = IF entry.minor_version < 2
                                THEN RemoveOldEntities(registry) ELSE registry
                 /\ IF MigrateAssertFails(entry)
                    THEN /\ result' = "raised"
                         /\ state' = "migration_error"
                         /\ UNCHANGED <<entry, stores, managers>>
                    ELSE /\ stores' = MigratedStores(entry, stores)
                         /\ managers' =
                              IF MovesTokens(entry)
                              THEN managers \cup {[op |-> "migrate",
                                                   key |-> MigrateStoreKey(entry)]}
                              ELSE managers
                         /\ entry' = UpdatedEntry(entry, MigratedData(entry),
                                                  MigratedOptions(entry))
                         /\ result' = "True"
                         /\ state' = AfterMigrated(state)
       ELSE /\ result' = "True"
            /\ state' = AfterMigrated(state)
            /\ UNCHANGED <<entry, registry, stores, managers>>
    /\ unsetReads' = IF ~Downgraded(entry) /\ entry.version = 1
                         /\ MigrateReadsUnsetRuntimeData(entry)
                      THEN unsetReads \cup {"migrate"} ELSE unsetReads
    /\ UNCHANGED <<sess, pc, now, check, resetCalls, midnights>>

\* --------------------------------------------------- async_setup_entry
\* the host calls async_setup_entry once the entry is at the handler's
\* version, or async_migrate_entry has just returned True
HostMigrated ==
    \/ entry.version = VERSION /\ entry.minor_version = MINOR_VERSION
    \/ lastOp = "migrate" /\ result = "True"

cur == Len(sess)

\* a store manager keyed by the entry's entry_id
SetupStoreKeyByEntryId(e) == ENTRY_ID

\* the storage key of the store manager async_setup_entry creates
SetupStoreKey(e) == e.unique_id

\* store = VolvoCarsStoreManager(hass, entry.unique_id); store.async_load()
NewSession(e, st) ==
    [key |-> SetupStoreKey(e), data |-> StoreLoad(st, SetupStoreKey(e)),
     sched |-> FALSE, listener |-> FALSE]

SetupLoadStore ==
    /\ state \in {"not_loaded", "setup_retry", "setup_error"}
    /\ pc = "idle"
    /\ HostMigrated
    /\ Len(sess) < MaxSetups
    /\ lastOp' = "setup"
    /\ pre' = <<>>
    /\ IF entry.unique_id = NoneId
       THEN /\ result' = "raised"
            /\ state' = "setup_error"
            /\ UNCHANGED <<sess, managers, pc, check, resetCalls, midnights>>
       ELSE /\ sess' = Append(sess, NewSession(entry, stores))
            /\ managers' = managers \cup {[op |-> "setup", key |-> SetupStoreKey(entry)]}
            /\ state' = "setup_in_progress"
            /\ pc' = "token"
            /\ result' = "None"
            /\ check' = <<>>
            /\ resetCalls' = {}
            /\ midnights' = {}
    /\ UNCHANGED <<entry, registry, stores, now, unsetReads>>

\* TokenCoordinator's refresh: new tokens from the auth API, written to
\* the store through the setup's store manager
RefreshedTokens(d) == [d EXCEPT !.access_token = "n1", !.refresh_token = "n2"]

\* token_coordinator.async_schedule_refresh(True): refresh now, then keep a
\* timer for the next refresh; an auth failure raises out of setup
SetupTokenRefresh ==
    /\ pc = "token"
    /\ \E ok \in BOOLEAN :
         IF ok
         THEN /\ sess' = [sess EXCEPT ![cur].data = RefreshedTokens(@),
                                      ![cur].sched = TRUE]
              /\ stores' = StoreSave(stores, sess[cur].key,
                                     RefreshedTokens(sess[cur].data))
              /\ pc' = "check"
              /\ result' = "None"
              /\ UNCHANGED state
         ELSE /\ pc' = "idle"
              /\ state' = "setup_error"
              /\ result' = "raised"
              /\ UNCHANGED <<sess, stores>>
    /\ lastOp' = "setup"
    /\ UNCHANGED <<entry, registry, now, pre, managers, check, resetCalls, midnights,
                   unsetReads>>

\* the missed-reset check with "reset_time <= most_recent_midnight"
ResetMissedInclusive(last_reset_time, t) ==
    IF last_reset_time = <<>>
    THEN FALSE
    ELSE FromIsoFormat(last_reset_time) <= MostRecentMidnight(t)

\* _async_reset_request_count_if_missed: does it reset
ResetMissed(last_reset_time, t) ==
    IF last_reset_time = <<>>
    THEN FALSE
    ELSE FromIsoFormat(last_reset_time) < MostRecentMidnight(t)

\* coordinator.async_reset_request_count: the count restarts and the store
\* records the time of the reset
ResetRequestCount(d, t) == [d EXCEPT !.api_requests_reset_time = IsoFormat(t)]

\* lines 57-66: the data coordinator, the missed-reset check, runtime_data
SetupResetIfMissed ==
    /\ pc = "check"
    /\ LET last == sess[cur].data.api_requests_reset_time
       IN  /\ check' = <<[last |-> last, at |-> now]>>
           /\ IF ResetMissed(last, now)
              THEN /\ sess' = [sess EXCEPT ![cur].data = ResetRequestCount(@, now)]
                   /\ stores' = StoreSave(stores, sess[cur].key,
                                          ResetRequestCount(sess[cur].data, now))
                   /\ resetCalls' = resetCalls \cup
                          {[at |-> now, by |-> "setup", pc |-> pc]}
              ELSE UNCHANGED <<sess, stores, resetCalls>>
    /\ entry' = [entry EXCEPT !.runtime_data = <<cur>>]
    /\ pc' = "refresh"
    /\ lastOp' = "setup"
    /\ result' = "None"
    /\ UNCHANGED <<registry, state, now, pre, managers, midnights, unsetReads>>

\* coordinator.async_config_entry_first_refresh(): ConfigEntryNotReady when
\* the first poll fails, and the host retries the setup later
SetupFirstRefresh ==
    /\ pc = "refresh"
    /\ \E ok \in BOOLEAN :
         IF ok
         THEN /\ pc' = "forward"
              /\ result' = "None"
              /\ UNCHANGED state
         ELSE /\ pc' = "idle"
              /\ state' = "setup_retry"
              /\ result' = "raised"
    /\ lastOp' = "setup"
    /\ UNCHANGED <<entry, registry, stores, sess, now, pre, managers, check,
                   resetCalls, midnights, unsetReads>>

\* async_forward_entry_setups, then lines 70-78: the listeners are
\* registered with entry.async_on_unload and setup returns True
SetupForwardAndRegister ==
    /\ pc = "forward"
    /\ \E ok \in BOOLEAN :
         IF ok
         THEN /\ sess' = [sess EXCEPT ![cur].listener = TRUE]
              /\ state' = "loaded"
              /\ result' = "True"
         ELSE /\ state' = "setup_error"
              /\ result' = "raised"
              /\ UNCHANGED sess
    /\ pc' = "idle"
    /\ lastOp' = "setup"
    /\ UNCHANGED <<entry, registry, stores, now, pre, managers, check, resetCalls,
                   midnights, unsetReads>>

\* -------------------------------------------------- async_unload_entry
\* token_coordinator.cancel_refresh()
CancelRefresh(s) == [s EXCEPT !.sched = FALSE]

\* entry.runtime_data.token_coordinator.cancel_refresh(), then
\* async_unload_platforms; when that returns True the host runs the
\* entry.async_on_unload callbacks, which remove the listeners, and deletes
\* entry.runtime_data
UnloadEntry ==
    /\ state = "loaded"
    /\ pc = "idle"
    /\ lastOp' = "unload"
    /\ pre' = <<>>
    /\ IF entry.runtime_data = <<>>
       THEN /\ result' = "raised"
            /\ state' = "failed_unload"
            /\ unsetReads' = unsetReads \cup {"unload"}
            /\ UNCHANGED <<sess, entry>>
       ELSE /\ UNCHANGED unsetReads
            /\ \E ok \in BOOLEAN :
                 LET rt == entry.runtime_data[1]
                 IN  IF ok
                     THEN /\ sess' = [sess EXCEPT
                                        ![rt] = [CancelRefresh(@) EXCEPT !.listener = FALSE]]
                          /\ entry' = [entry EXCEPT !.runtime_data = <<>>]
                          /\ state' = "not_loaded"
                          /\ result' = "True"
                     ELSE /\ sess' = [sess EXCEPT ![rt] = CancelRefresh(@)]
                          /\ state' = "failed_unload"
                          /\ result' = "False"
                          /\ UNCHANGED entry
    /\ UNCHANGED <<registry, stores, pc, now, managers,
                   check, resetCalls, midnights>>

\* -------------------------------------------------- async_remove_entry
\* "if entry.unique_id:"
Truthy(id) == id # NoneId /\ id # ""

\* the storage key of the store manager async_remove_entry creates
RemoveStoreKey(e) == e.unique_id

\* async_remove_entry removing the store of the entry_id
RemovedStoresByEntryId(e, st) ==
    IF Truthy(e.unique_id) THEN StoreRemove(st, ENTRY_ID) ELSE st

\* the persisted stores after async_remove_entry
RemovedStores(e, st) ==
    IF Truthy(e.unique_id) THEN StoreRemove(st, RemoveStoreKey(e)) ELSE st

RemoveEntry ==
    /\ state \in {"not_loaded", "setup_retry", "setup_error", "migration_error",
                  "failed_unload"}
    /\ pc = "idle"
    /\ lastOp' = "remove"
    /\ pre' = <<>>
    /\ result' = "None"
    /\ state' = "removed"
    /\ stores' = RemovedStores(entry, stores)
    /\ managers' = IF Truthy(entry.unique_id)
                   THEN managers \cup {[op |-> "remove", key |-> RemoveStoreKey(entry)]}
                   ELSE managers
    /\ UNCHANGED <<entry, registry, sess, pc, now, check, resetCalls, midnights,
                   unsetReads>>

\* --------------------------------------------------------------- timers
\* hour=0, minute=0, second=0 of async_track_utc_time_change
IsMidnight(t) == IsoFormat(t)[2] = 0

Listening == {i \in 1..Len(sess) : sess[i].listener}

\* time passes; at 00:00:00 UTC every registered listener calls
\* coordinator.async_reset_request_count
Tick ==
    /\ now < MaxTime
    /\ now' = now + 1
    /\ IF IsMidnight(now')
       THEN /\ sess' = [i \in 1..Len(sess) |->
                          IF sess[i].listener
                          THEN [sess[i] EXCEPT !.data = ResetRequestCount(@, now')]
                          ELSE sess[i]]
            /\ stores' = [k \in StoreKeys |->
                            IF \E i \in Listening : sess[i].key = k
                            THEN <<sess'[CHOOSE i \in Listening : sess[i].key = k].data>>
                            ELSE stores[k]]
            /\ resetCalls' = resetCalls \cup
                   {[at |-> now', by |-> "midnight", pc |-> pc] : i \in Listening}
            /\ midnights' = midnights \cup
                   {[at |-> now', state |-> state, pc |-> pc]}
       ELSE UNCHANGED <<sess, stores, resetCalls, midnights>>
    /\ lastOp' = "timer"
    /\ result' = "None"
    /\ pre' = <<>>
    /\ UNCHANGED <<entry, registry, state, pc, managers, check, unsetReads>>

\* the timer of a token refresh schedule fires: the tokens are refreshed
\* and written to the store through the manager of the setup that started
\* it (a refresh that writes what the store already holds is a stuttering
\* step)
TokenRefreshFires ==
    /\ \E i \in 1..Len(sess) :
         /\ sess[i].sched
         /\ sess' = [sess EXCEPT ![i].data = RefreshedTokens(@)]
         /\ stores' = StoreSave(stores, sess[i].key, RefreshedTokens(sess[i].data))
         /\ stores' # stores
    /\ lastOp' = "timer"
    /\ result' = "None"
    /\ pre' = <<>>
    /\ UNCHANGED <<entry, registry, state, pc, now, managers, check, resetCalls,
                   midnights, unsetReads>>

Next ==
    \/ MigrateEntry
    \/ SetupLoadStore
    \/ SetupTokenRefresh
    \/ SetupResetIfMissed
    \/ SetupFirstRefresh
    \/ SetupForwardAndRegister
    \/ UnloadEntry
    \/ RemoveEntry
    \/ Tick
    \/ TokenRefreshFires

Spec == Init /\ [][Next]_vars

\* ================================================================ claims
AfterMigrate == lastOp = "migrate" /\ pre # <<>>
Before == pre[1]

PairGE(v1, m1, v2, m2) == v1 > v2 \/ (v1 = v2 /\ m1 >= m2)

\* C1: every async_migrate_entry call leaves the entry's (version,
\* minor_version) pair lexicographically greater than or equal to the pair
\* before the call, also for a version-1 entry whose minor_version is
\* already above MINOR_VERSION.
C1_MigrationMonotonic ==
    AfterMigrate =>
        PairGE(entry.version, entry.minor_version,
               Before.entry.version, Before.entry.minor_version)

\* C2: for an entry whose version does not exceed VERSION, a second
\* async_migrate_entry call right after a first one leaves data, options,
\* version, minor_version and the store's tokens as the first call left
\* them, and both calls return True.
C2_MigrationIdempotent ==
    (AfterMigrate /\ Before.lastOp = "migrate" /\ Before.entry.version <= VERSION) =>
        /\ Before.result = "True"
        /\ result = "True"
        /\ entry = Before.entry
        /\ stores = Before.stores

MigratedOldEntry ==
    /\ AfterMigrate
    /\ result = "True"
    /\ Before.entry.version = 1
    /\ Before.entry.minor_version < 3

Tokens == {CONF_ACCESS_TOKEN, CONF_REFRESH_TOKEN}

StoredToken(k) ==
    LET d == stores[entry.unique_id][1]
    IN  IF k = CONF_ACCESS_TOKEN THEN d.access_token ELSE d.refresh_token

TokenInStore(k, v) ==
    /\ entry.unique_id \in StoreKeys
    /\ stores[entry.unique_id] # <<>>
    /\ StoredToken(k) = v

\* C3: after async_migrate_entry returned True for a version-1 entry with
\* minor_version < 3, entry.data holds no password, no access token and no
\* refresh token, and every token that was in entry.data before the call is
\* in the entry's store with the same value.
C3_SecretsLeaveData ==
    MigratedOldEntry =>
        /\ DOMAIN entry.data \cap ({CONF_PASSWORD} \cup Tokens) = {}
        /\ \A k \in Tokens \cap DOMAIN Before.entry.data :
              TokenInStore(k, Before.entry.data[k])

\* C3 as amended: entry.data holds no password; when it held both an access
\* token and a refresh token before the call it holds neither afterwards and
\* both are in the entry's store with the same value; a token held without
\* the other stays in entry.data with its value and the stores are untouched.
C3_SecretsLeaveDataWhenPaired ==
    MigratedOldEntry =>
        /\ CONF_PASSWORD \notin DOMAIN entry.data
        /\ \A k \in DOMAIN Before.entry.data \ ({CONF_PASSWORD} \cup Tokens) :
              k \in DOMAIN entry.data /\ entry.data[k] = Before.entry.data[k]
        /\ IF Tokens \subseteq DOMAIN Before.entry.data
           THEN /\ DOMAIN entry.data \cap Tokens = {}
                /\ \A k \in Tokens : TokenInStore(k, Before.entry.data[k])
           ELSE /\ \A k \in Tokens \cap DOMAIN Before.entry.data :
                     k \in DOMAIN entry.data /\ entry.data[k] = Before.entry.data[k]
                /\ DOMAIN entry.data \cap Tokens = DOMAIN Before.entry.data \cap Tokens
                /\ stores = Before.stores

C3_Witness ==
    /\ MigratedOldEntry
    /\ Tokens \cup {CONF_PASSWORD} \subseteq DOMAIN Before.entry.data
    /\ Before.stores[entry.unique_id] # <<>>

\* C4: every VolvoCarsStoreManager that async_migrate_entry,
\* async_setup_entry and async_remove_entry create is keyed by the entry's
\* unique_id, so no persisted store exists under any other key and every
\* setup's manager works on that one store.
C4_OneStorePerEntry ==
    /\ \A m \in managers : m.key = entry.unique_id
    /\ \A k \in StoreKeys : stores[k] # <<>> => k = entry.unique_id
    /\ \A i \in 1..Len(sess) : sess[i].key = entry.unique_id

C4_Witness ==
    /\ {m.op : m \in managers} = {"migrate", "setup", "remove"}
    /\ Len(sess) = MaxSetups

C6_DowngradeRejected ==
    (AfterMigrate /\ Before.entry.version > VERSION) =>
        /\ result = "False"
        /\ entry = Before.entry
        /\ stores = Before.stores
        /\ registry = Before.registry

C6_Witness ==
    /\ AfterMigrate
    /\ Before.entry.version > VERSION
    /\ stores[entry.unique_id] # <<>>
    /\ Tokens \subseteq DOMAIN entry.data

SetupResets == {r \in resetCalls : r.by = "setup"}

\* the instant a stored timestamp <<day, time-of-day>> denotes
Instant(ts) == ts[1] * DayLen + ts[2]

\* some UTC midnight lies after the stored timestamp and not after t
MidnightPassedSince(ts, t) ==
    \E d \in 0..MaxTime : Instant(ts) < d * DayLen /\ d * DayLen <= t

\* C7: a setup resets the request count in its missed-reset check if and
\* only if the store holds a last-reset timestamp strictly earlier than the
\* most recent UTC midnight, and then before the first data refresh; with no
\* timestamp, or one at or after that midnight, setup does not reset.
C7_MissedResetCheck ==
    /\ check = <<>> => SetupResets = {}
    /\ check # <<>> =>
         LET chk == check[1]
         IN  /\ (SetupResets # {}) <=>
                    (chk.last # <<>> /\ MidnightPassedSince(chk.last, chk.at))
             /\ \A r \in SetupResets : r.at = chk.at /\ r.pc = "check"

C7_Witness ==
    /\ check # <<>>
    /\ SetupResets # {}
    /\ state = "loaded"

\* the entry has run its missed-reset check and is not unloaded
PastCheck(s, p) == s = "loaded" \/ p \in {"refresh", "forward"}

\* C8: every UTC midnight that passes after async_setup_entry ran its
\* missed-reset check and before the entry is unloaded triggers
\* coordinator.async_reset_request_count, also while setup still awaits the
\* first data refresh or the platform forwarding.
C8_NoDailyResetLost ==
    \A m \in midnights :
        PastCheck(m.state, m.pc) =>
            \E r \in resetCalls : r.by = "midnight" /\ r.at = m.at

\* C9: no handler reads entry.runtime_data before async_setup_entry has
\* assigned it, neither async_migrate_entry on a version-1 entry with
\* minor_version < 2 nor async_unload_entry.
C9_RuntimeDataReadAfterAssigned == unsetReads = {}

Scheduled == {i \in 1..Len(sess) : sess[i].sched}

\* C10: whenever the entry is not loaded (unloaded, or its setup failed) no
\* token refresh schedule is active, and at most one is active at any time.
C10_NoRefreshOutlivesSetup ==
    /\ state \notin {"loaded", "setup_in_progress"} => Scheduled = {}
    /\ Cardinality(Scheduled) <= 1

====
